---- MODULE Spec2Model ----
(***************************************************************************)
(* Model of organizing1.py, the "AI Innovation Generator" Streamlit        *)
(* script.  A script run executes the file top to bottom: it loads the     *)
(* three model handles, then dispatches on the selected input type.        *)
(* Every widget interaction starts a new script run.                       *)
(*                                                                         *)
(* Strings are sequences of tokens.  A token is a whitespace character     *)
(* (" " or "\n"), a single character, or a chunk of literal text that      *)
(* begins and ends with a non-whitespace character.                        *)
(***************************************************************************)
EXTENDS Integers, Sequences, FiniteSets, TLC

\* ------------------------------------------------------------------ bounds
\* longest text the user types into the text area
MaxLen == 2
\* number of script runs explored in one process lifetime
MaxLoads == 5
\* probabilities are drawn from 0..MaxProb (quantised softmax outputs)
MaxProb == 2

\* ------------------------------------------------------- string primitives
IsSpace(c) == c \in {" ", "\n"}

RECURSIVE LStrip(_)
LStrip(s) == IF s # <<>> /\ IsSpace(Head(s)) THEN LStrip(Tail(s)) ELSE s

RECURSIVE RStrip(_)
RStrip(s) ==
    IF s # <<>> /\ IsSpace(s[Len(s)]) THEN RStrip(SubSeq(s, 1, Len(s) - 1)) ELSE s

\* a buggy variant of str.strip(): only leading whitespace is removed
StripLeftOnly(s) == LStrip(s)

\* str.strip()
Strip(s) == RStrip(LStrip(s))

CasePairs ==
    { <<"a", "A">>, <<"b", "B">>, <<"c", "C">>, <<"d", "D">>, <<"e", "E">>,
      <<"f", "F">>, <<"g", "G">>, <<"h", "H">>, <<"i", "I">>, <<"j", "J">>,
      <<"k", "K">>, <<"l", "L">>, <<"m", "M">>, <<"n", "N">>, <<"o", "O">>,
      <<"p", "P">>, <<"q", "Q">>, <<"r", "R">>, <<"s", "S">>, <<"t", "T">>,
      <<"u", "U">>, <<"v", "V">>, <<"w", "W">>, <<"x", "X">>, <<"y", "Y">>,
      <<"z", "Z">> }

ToUpper(c) ==
    IF \E p \in CasePairs : p[1] = c
    THEN (CHOOSE p \in CasePairs : p[1] = c)[2] ELSE c

ToLower(c) ==
    IF \E p \in CasePairs : p[2] = c
    THEN (CHOOSE p \in CasePairs : p[2] = c)[1] ELSE c

\* a buggy variant of str.capitalize(): str.lower()
LowerAll(s) == [i \in 1..Len(s) |-> ToLower(s[i])]

\* str.capitalize(): first character upper-cased, the rest lower-cased
Capitalize(s) ==
    [i \in 1..Len(s) |-> IF i = 1 THEN ToUpper(s[i]) ELSE ToLower(s[i])]

\* Python truthiness of a str / list value
Truthy(s) == s # <<>>

\* ------------------------------------------------------- return values
\* a Python value that is either None or a str / list
None == [none |-> TRUE, val |-> <<>>]
Some(v) == [none |-> FALSE, val |-> v]
\* `if x:` for x of type Optional[str] / Optional[list]
IsTruthy(r) == ~r.none /\ Truthy(r.val)

\* ------------------------------------------------------- module namespace
\* names bound by the import statements at the top of the script
ImportedNames ==
    {"st", "pipeline", "CLIPProcessor", "CLIPModel", "Image", "pd", "torch",
     "traceback"}

\* a message rendered on the page: st.error / st.warning / st.success / ...
\* `text` is the error text interpolated into an error message
Msg(kind, src, text) == [kind |-> kind, src |-> src, text |-> text]

\* error texts a failing third-party call may carry
ErrTexts == {"out of memory", "bad input"}

\* ------------------------------------------------------- load_models
\* handle value 0: the name is not bound; n > 0: the object built by the
\* n-th execution of load_models
Unbound == [text_generator |-> 0, clip_model |-> 0, clip_processor |-> 0]

\* outcome of the three acquisitions: all succeed, or stage `at` raises
LoadOutcomes ==
    {[raises |-> FALSE, at |-> 0, err |-> ""]}
        \cup {[raises |-> TRUE, at |-> i, err |-> e] : i \in 1..3, e \in ErrTexts}

\* a buggy variant of load_models: on failure the handles acquired so far are
\* returned and the script carries on
load_models_degraded(o, n) ==
    IF ~o.raises
    THEN [stopped |-> FALSE,
          handles |-> [text_generator |-> n, clip_model |-> n, clip_processor |-> n],
          rendered |-> {}]
    ELSE [stopped |-> FALSE,
          handles |-> [text_generator |-> IF o.at > 1 THEN n ELSE 0,
                       clip_model |-> IF o.at > 2 THEN n ELSE 0,
                       clip_processor |-> 0],
          rendered |-> {Msg("error", "load_models", o.err)}]

\* load_models() and the module-level assignment of its result: either all
\* three handles are bound, or st.error + st.stop() end the script run
load_models(o, n) ==
    IF ~o.raises
    THEN [stopped |-> FALSE,
          handles |-> [text_generator |-> n, clip_model |-> n, clip_processor |-> n],
          rendered |-> {}]
    ELSE [stopped |-> TRUE,
          handles |-> Unbound,
          rendered |-> {Msg("error", "load_models", o.err)}]

\* ------------------------------------------------------- generate_innovation
Sentence1 == "Provide a detailed, creative, and practical solution to the problem."
Sentence2 == "Describe its real-world applications and potential benefits."

\* a buggy variant of the prompt: the context is lower-cased
structured_prompt_lower(prompt, context) ==
    <<"Context:", " ">> \o LowerAll(context) \o <<".", "\n", "Problem:", " ">>
        \o prompt \o <<".", "\n", Sentence1, "\n", Sentence2>>

\* the f-string of generate_innovation
structured_prompt(prompt, context) ==
    <<"Context:", " ">> \o Capitalize(context) \o <<".", "\n", "Problem:", " ">>
        \o prompt \o <<".", "\n", Sentence1, "\n", Sentence2>>

\* keyword arguments of the text_generator call; temperature and top_p in
\* hundredths
GenCall(p) ==
    [prompt |-> p, max_length |-> 200, num_return_sequences |-> 1,
     temperature |-> 70, top_p |-> 95]

\* texts the language model may append to the prompt
Continuations == {<<>>, <<" ">>, <<"w">>, <<" ", "w", "\n">>, <<"\n", "\n">>}

\* outcome of one text_generator call: it raises, or it samples a continuation
TextOutcomes ==
    {[raises |-> FALSE, text |-> c, err |-> ""] : c \in Continuations}
        \cup {[raises |-> TRUE, text |-> <<>>, err |-> e] : e \in ErrTexts}

\* the text-generation pipeline built by pipeline("text-generation", ...):
\* called without return_full_text, its "generated_text" is the prompt
\* followed by the sampled continuation
generated_text(call, tg) == call.prompt \o tg.text

\* generate_innovation(prompt, context)
generate_innovation(prompt, context, tg) ==
    LET call == GenCall(structured_prompt(prompt, context)) IN
    IF ~tg.raises
    THEN [ret |-> Some(Strip(generated_text(call, tg))),
          calls |-> <<call>>, rendered |-> {}, raised |-> {}]
    ELSE [ret |-> None, calls |-> <<call>>,
          rendered |-> {Msg("error", "generate_innovation", tg.err)},
          raised |-> {<<"generate_innovation", tg.err>>}]

\* ------------------------------------------------------- analyze_image
\* the fixed vocabulary, in source order
concepts ==
    <<"healthcare", "education", "sustainability", "robotics",
      "smart agriculture", "business innovation", "AI assistants",
      "wearable technology", "gaming", "urban development">>

NumConcepts == Len(concepts)

\* zip(concepts, probs)
Zip(probs) == [i \in 1..NumConcepts |-> <<concepts[i], probs[i]>>]

\* a buggy variant of the insertion: an element goes in front of the elements
\* with an equal key (the order sorted(...)[::-1] would give)
InsertDescFront(sorted, x) ==
    LET before == {i \in 1..Len(sorted) : sorted[i][2] <= x[2]}
        k == IF before = {} THEN Len(sorted) + 1
             ELSE CHOOSE i \in before : \A j \in before : i <= j
    IN SubSeq(sorted, 1, k - 1) \o <<x>> \o SubSeq(sorted, k, Len(sorted))

\* one step of the stable descending sort: x goes behind every element whose
\* key is greater than or equal to its own
InsertDesc(sorted, x) ==
    LET before == {i \in 1..Len(sorted) : sorted[i][2] < x[2]}
        k == IF before = {} THEN Len(sorted) + 1
             ELSE CHOOSE i \in before : \A j \in before : i <= j
    IN SubSeq(sorted, 1, k - 1) \o <<x>> \o SubSeq(sorted, k, Len(sorted))

RECURSIVE SortedDescFrom(_, _, _)
SortedDescFrom(pairs, i, acc) ==
    IF i > Len(pairs) THEN acc
    ELSE SortedDescFrom(pairs, i + 1, InsertDesc(acc, pairs[i]))

\* sorted(pairs, key=lambda x: x[1], reverse=True): stable, so elements with
\* equal keys keep their original order
SortedDesc(pairs) == SortedDescFrom(pairs, 1, <<>>)

\* s[:n]
Take(s, n) == SubSeq(s, 1, IF n < Len(s) THEN n ELSE Len(s))

\* outcome of the CLIP processor + model call: it raises or yields the
\* image's probabilities
ClipOutcomes ==
    {[raises |-> FALSE, err |-> ""]}
        \cup {[raises |-> TRUE, err |-> e] : e \in ErrTexts}

\* a buggy variant of analyze_image: the failure is swallowed silently
analyze_image_silent(image, clip) ==
    IF ~clip.raises
    THEN [ret |-> Some(Take(SortedDesc(Zip(image.probs)), 3)),
          clipCalls |-> 1, rendered |-> {}, raised |-> {}]
    ELSE [ret |-> None, clipCalls |-> 1, rendered |-> {},
          raised |-> {<<"analyze_image", clip.err>>}]

\* analyze_image(image)
analyze_image(image, clip) ==
    IF ~clip.raises
    THEN [ret |-> Some(Take(SortedDesc(Zip(image.probs)), 3)),
          clipCalls |-> 1, rendered |-> {}, raised |-> {}]
    ELSE [ret |-> None, clipCalls |-> 1,
          rendered |-> {Msg("error", "analyze_image", clip.err)},
          raised |-> {<<"analyze_image", clip.err>>}]

\* ------------------------------------------------------- analyze_data
\* outcome of df.describe(): it raises or yields the statistics
DescribeOutcomes ==
    {[raises |-> FALSE, err |-> ""]}
        \cup {[raises |-> TRUE, err |-> e] : e \in ErrTexts}

\* keys of df.describe().to_dict(): the numeric columns, or every column
\* when none is numeric
describe(df) ==
    LET numeric == {i \in 1..Len(df.columns) : df.numeric[i]} IN
    IF numeric = {} THEN {df.columns[i] : i \in 1..Len(df.columns)}
    ELSE {df.columns[i] : i \in numeric}

\* analyze_data(df): (summary, insights, stats, use_case), or four None
analyze_data(df, d) ==
    IF ~d.raises
    THEN [none |-> FALSE,
          summary |-> <<df.rows, Len(df.columns)>>,
          insights |-> df.columns,
          stats |-> describe(df),
          describeCalls |-> 1, rendered |-> {}, raised |-> {}]
    ELSE [none |-> TRUE, summary |-> <<>>, insights |-> <<>>, stats |-> {},
          describeCalls |-> 1,
          rendered |-> {Msg("error", "analyze_data", d.err)},
          raised |-> {<<"analyze_data", d.err>>}]

\* ------------------------------------------------------- generate_random_concept
\* the five (idea, use_case) entries
RandomConcepts ==
    << [idea |-> "AI-powered IoT sensors to optimize energy usage in smart homes.",
        use_case |-> "Reduces energy bills by up to 40% while ensuring sustainability."],
       [idea |-> "AR glasses for real-time translation during conversations.",
        use_case |-> "Breaks language barriers, enabling seamless global communication."],
       [idea |-> "Wearable devices that monitor mental health and provide guided therapy sessions.",
        use_case |-> "Helps individuals manage stress and anxiety proactively."],
       [idea |-> "Personalized e-learning platforms using adaptive AI to match individual learning styles.",
        use_case |-> "Improves student outcomes and engagement by 50%."],
       [idea |-> "Blockchain-based food traceability system.",
        use_case |-> "Ensures food safety by tracking the origin and quality of produce."] >>

NoConcept == [idea |-> "", use_case |-> ""]

\* generate_random_concept(): `random.choice(concepts)` looks the global name
\* `random` up in the module namespace; an unbound name raises NameError.
\* `k` is the index random.choice would draw
generate_random_concept(k) ==
    IF "random" \in ImportedNames
    THEN [raises |-> FALSE, val |-> RandomConcepts[k], err |-> ""]
    ELSE [raises |-> TRUE, val |-> NoConcept,
          err |-> "NameError: name 'random' is not defined"]

\* ------------------------------------------------------- widgets
InputTypes == {"Text", "Image", "CSV Data", "Random Concept"}

\* options of the context selectbox
Contexts ==
    { <<"G", "e", "n", "e", "r", "a", "l">>,
      <<"H", "e", "a", "l", "t", "h", "c", "a", "r", "e">>,
      <<"E", "d", "u", "c", "a", "t", "i", "o", "n">>,
      <<"S", "u", "s", "t", "a", "i", "n", "a", "b", "i", "l", "i", "t", "y">>,
      <<"R", "o", "b", "o", "t", "i", "c", "s">>,
      <<"A", "g", "r", "i", "c", "u", "l", "t", "u", "r", "e">>,
      <<"T", "e", "c", "h", "n", "o", "l", "o", "g", "y">> }

DefaultContext == <<"G", "e", "n", "e", "r", "a", "l">>

\* characters typed into the text area
TextChars == {" ", "\n", "p"}

Texts == UNION {[1..n -> TextChars] : n \in 0..MaxLen}

ZeroProbs == [i \in 1..NumConcepts |-> 0]

\* st.file_uploader value: None, or an uploaded file.  `ok` says whether the
\* parser (Image.open / pd.read_csv) accepts the bytes
NoImage == [present |-> FALSE, ok |-> FALSE, probs |-> ZeroProbs]
CorruptImage == [present |-> TRUE, ok |-> FALSE, probs |-> ZeroProbs]

\* probability vectors of the images uploaded in the interactive runs: a
\* peak label, a runner-up label, the other labels tied
PeakProbs ==
    {[i \in 1..NumConcepts |-> IF i = a THEN MaxProb ELSE IF i = b THEN 1 ELSE 0] :
        a \in 1..NumConcepts, b \in {1, 2}}

AllProbs == [1..NumConcepts -> 0..MaxProb]

ImageFile(p) == [present |-> TRUE, ok |-> TRUE, probs |-> p]

NoCsv == [present |-> FALSE, ok |-> FALSE, rows |-> 0, columns |-> <<>>, numeric |-> <<>>]
CorruptCsv == [present |-> TRUE, ok |-> FALSE, rows |-> 0, columns |-> <<>>, numeric |-> <<>>]

CsvFiles ==
    {[present |-> TRUE, ok |-> TRUE, rows |-> 2, columns |-> <<"name", "age">>,
      numeric |-> <<FALSE, TRUE>>],
     [present |-> TRUE, ok |-> TRUE, rows |-> 0, columns |-> <<"name">>,
      numeric |-> <<FALSE>>]}

\* ------------------------------------------------------- state
VARIABLES
    input_type,      \* sidebar radio
    context,         \* sidebar selectbox
    user_input,      \* text area (Text mode)
    uploaded_image,  \* file uploader (Image mode)
    uploaded_csv,    \* file uploader (CSV Data mode)
    button,          \* TRUE in the script run started by a button press
    pc,              \* "load", "ui": position of the running script;
                     \* "done", "stopped", "crashed": how the last run ended
    handles,         \* text_generator, clip_model, clip_processor of this run
    loads,           \* executions of load_models in this process
    first,           \* the handles bound by the first successful load
    rendered,        \* messages rendered by this run
    calls,           \* text_generator calls of this run
    clipCalls,       \* CLIP model calls of this run
    describeCalls,   \* df.describe() calls of this run
    invoked,         \* components invoked by this run, in order
    raised,          \* (component, error text) of the failures of this run
    uncaught,        \* text of the exception that left the script, or ""
    output,          \* generate_innovation's return value
    ui_concepts,     \* analyze_image's return value
    data,            \* analyze_data's return value
    concept          \* generate_random_concept's return value

widgets == <<input_type, context, user_input, uploaded_image, uploaded_csv>>
run == <<rendered, calls, clipCalls, describeCalls, invoked, raised, uncaught,
         output, ui_concepts, data, concept>>
vars == <<widgets, button, pc, handles, loads, first, run>>

NoData == [none |-> TRUE, summary |-> <<>>, insights |-> <<>>, stats |-> {}]

\* a fresh script run: the module namespace and the page start empty
FreshRun ==
    /\ handles' = Unbound
    /\ rendered' = {}
    /\ calls' = <<>>
    /\ clipCalls' = 0
    /\ describeCalls' = 0
    /\ invoked' = <<>>
    /\ raised' = {}
    /\ uncaught' = ""
    /\ output' = None
    /\ ui_concepts' = None
    /\ data' = NoData
    /\ concept' = NoConcept

\* first page load: widget defaults, the script about to run
Init ==
    /\ input_type = "Text"
    /\ context = DefaultContext
    /\ user_input = <<>>
    /\ uploaded_image = NoImage
    /\ uploaded_csv = NoCsv
    /\ button = FALSE
    /\ pc = "load"
    /\ handles = Unbound
    /\ loads = 0
    /\ first = Unbound
    /\ rendered = {}
    /\ calls = <<>>
    /\ clipCalls = 0
    /\ describeCalls = 0
    /\ invoked = <<>>
    /\ raised = {}
    /\ uncaught = ""
    /\ output = None
    /\ ui_concepts = None
    /\ data = NoData
    /\ concept = NoConcept

\* ------------------------------------------------------- request handlers
\* what one request adds to the state of its script run
Effects(out, cs, dt, cl, clip, desc, inv, rend, rais) ==
    [output |-> out, ui_concepts |-> cs, data |-> dt, calls |-> cl,
     clipCalls |-> clip, describeCalls |-> desc, invoked |-> inv,
     rendered |-> rend, raised |-> rais]

\* a buggy variant of the Text mode guard: the text is not stripped
TextRequestNoStrip(text, ctx, tg) ==
    IF Truthy(text)
    THEN LET g == generate_innovation(text, ctx, tg) IN
         Effects(g.ret, None, NoData, g.calls, 0, 0, <<"generate_innovation">>,
                 g.rendered \cup
                    (IF IsTruthy(g.ret)
                     THEN {Msg("success", "idea", ""), Msg("write", "idea", "")}
                     ELSE {}),
                 g.raised)
    ELSE Effects(None, None, NoData, <<>>, 0, 0, <<>>,
                 {Msg("warning", "validation", "")}, {})

\* Text mode, button pressed
TextRequest(text, ctx, tg) ==
    IF Truthy(Strip(text))
    THEN LET g == generate_innovation(text, ctx, tg) IN
         Effects(g.ret, None, NoData, g.calls, 0, 0, <<"generate_innovation">>,
                 g.rendered \cup
                    (IF IsTruthy(g.ret)
                     THEN {Msg("success", "idea", ""), Msg("write", "idea", "")}
                     ELSE {}),
                 g.raised)
    ELSE Effects(None, None, NoData, <<>>, 0, 0, <<>>,
                 {Msg("warning", "validation", "")}, {})

\* a buggy variant of top_concept: the last of the three returned labels
last_concept(cs) == cs[Len(cs)][1]

\* top_concept = concepts[0][0]
top_concept(cs) == cs[1][1]

\* Image mode, image opened, button pressed
ImageRequest(image, ctx, clip, tg) ==
    LET a == analyze_image(image, clip) IN
    IF IsTruthy(a.ret)
    THEN LET g == generate_innovation(<<top_concept(a.ret.val), " ", "innovation">>,
                                      ctx, tg) IN
         Effects(g.ret, a.ret, NoData, g.calls, a.clipCalls, 0,
                 <<"analyze_image", "generate_innovation">>,
                 {Msg("image", "upload", ""), Msg("success", "concepts", ""),
                  Msg("write", "concepts", "")}
                    \cup a.rendered \cup g.rendered \cup
                    (IF IsTruthy(g.ret)
                     THEN {Msg("markdown", "idea", ""), Msg("write", "idea", "")}
                     ELSE {}),
                 a.raised \cup g.raised)
    ELSE Effects(None, a.ret, NoData, <<>>, a.clipCalls, 0, <<"analyze_image">>,
                 {Msg("image", "upload", "")} \cup a.rendered, a.raised)

\* CSV Data mode, file parsed, button pressed
CsvRequest(df, d) ==
    LET r == analyze_data(df, d)
        dt == [none |-> r.none, summary |-> r.summary, insights |-> r.insights,
               stats |-> r.stats]
    IN
    Effects(None, None, dt, <<>>, 0, r.describeCalls, <<"analyze_data">>,
            {Msg("dataframe", "upload", "")} \cup r.rendered \cup
               (IF ~r.none /\ Truthy(r.summary) /\ Truthy(r.insights) /\ r.stats # {}
                THEN {Msg("success", "insights", ""), Msg("write", "insights", ""),
                      Msg("json", "stats", ""), Msg("markdown", "use_case", "")}
                ELSE {}),
            r.raised)

\* the request takes effect and the script runs to its end
Apply(e) ==
    /\ output' = e.output
    /\ ui_concepts' = e.ui_concepts
    /\ data' = e.data
    /\ calls' = e.calls
    /\ clipCalls' = e.clipCalls
    /\ describeCalls' = e.describeCalls
    /\ invoked' = e.invoked
    /\ rendered' = rendered \cup e.rendered
    /\ raised' = e.raised
    /\ pc' = "done"
    /\ UNCHANGED <<uncaught, concept>>

\* an exception leaves the script: the framework shows it and ends the run
Crash(rend, err) ==
    /\ uncaught' = err
    /\ rendered' = rendered \cup rend \cup {Msg("exception", "script", err)}
    /\ pc' = "crashed"
    /\ UNCHANGED <<calls, clipCalls, describeCalls, raised, output, ui_concepts,
                   data, concept>>

\* the script ends having called no component
Finish(rend) ==
    /\ rendered' = rendered \cup rend
    /\ pc' = "done"
    /\ UNCHANGED <<calls, clipCalls, describeCalls, invoked, raised, uncaught,
                   output, ui_concepts, data, concept>>

\* ------------------------------------------------------- script steps
\* text_generator, clip_model, clip_processor = load_models()
LoadModels ==
    /\ pc = "load"
    /\ \E o \in LoadOutcomes :
          LET r == load_models(o, loads + 1) IN
          /\ handles' = r.handles
          /\ rendered' = rendered \cup r.rendered
          /\ pc' = IF r.stopped THEN "stopped" ELSE "ui"
          /\ first' = IF first = Unbound THEN r.handles ELSE first
    /\ loads' = loads + 1
    /\ UNCHANGED <<widgets, button, calls, clipCalls, describeCalls, invoked,
                   raised, uncaught, output, ui_concepts, data, concept>>

\* if input_type == "Text":
HandleText ==
    /\ pc = "ui" /\ input_type = "Text"
    /\ IF button
       THEN \E tg \in TextOutcomes : Apply(TextRequest(user_input, context, tg))
       ELSE Finish({})
    /\ UNCHANGED <<widgets, button, handles, loads, first>>

\* elif input_type == "Image":
HandleImage ==
    /\ pc = "ui" /\ input_type = "Image"
    /\ IF ~uploaded_image.present THEN Finish({})
       ELSE IF ~uploaded_image.ok
       THEN Crash({}, "cannot identify image file") /\ UNCHANGED invoked
       ELSE IF ~button THEN Finish({Msg("image", "upload", "")})
       ELSE \E clip \in ClipOutcomes, tg \in TextOutcomes :
               Apply(ImageRequest(uploaded_image, context, clip, tg))
    /\ UNCHANGED <<widgets, button, handles, loads, first>>

\* elif input_type == "CSV Data":
HandleCsv ==
    /\ pc = "ui" /\ input_type = "CSV Data"
    /\ IF ~uploaded_csv.present THEN Finish({})
       ELSE IF ~uploaded_csv.ok
       THEN Crash({}, "error tokenizing data") /\ UNCHANGED invoked
       ELSE IF ~button THEN Finish({Msg("dataframe", "upload", "")})
       ELSE \E d \in DescribeOutcomes : Apply(CsvRequest(uploaded_csv, d))
    /\ UNCHANGED <<widgets, button, handles, loads, first>>

\* elif input_type == "Random Concept":
HandleRandom ==
    /\ pc = "ui" /\ input_type = "Random Concept"
    /\ IF ~button THEN Finish({})
       ELSE \E k \in 1..Len(RandomConcepts) :
               LET r == generate_random_concept(k) IN
               IF r.raises
               THEN /\ Crash({}, r.err)
                    /\ invoked' = <<"generate_random_concept">>
               ELSE /\ concept' = r.val
                    /\ invoked' = <<"generate_random_concept">>
                    /\ rendered' = rendered \cup
                          {Msg("markdown", "random", ""), Msg("write", "random", "")}
                    /\ pc' = "done"
                    /\ UNCHANGED <<calls, clipCalls, describeCalls, raised,
                                   uncaught, output, ui_concepts, data>>
    /\ UNCHANGED <<widgets, button, handles, loads, first>>

\* ------------------------------------------------------- user interactions
\* every widget interaction re-executes the script from its first line
Idle == pc \in {"done", "crashed"} /\ loads < MaxLoads

StartRun(pressed) ==
    /\ button' = pressed
    /\ pc' = "load"
    /\ FreshRun
    /\ UNCHANGED <<loads, first>>

\* the radio changes; the widgets of the mode left behind lose their values
SelectInputType(t) ==
    /\ Idle /\ t # input_type
    /\ input_type' = t
    /\ user_input' = <<>>
    /\ uploaded_image' = NoImage
    /\ uploaded_csv' = NoCsv
    /\ UNCHANGED context
    /\ StartRun(FALSE)

SelectContext(c) ==
    /\ Idle /\ c # context
    /\ context' = c
    /\ UNCHANGED <<input_type, user_input, uploaded_image, uploaded_csv>>
    /\ StartRun(FALSE)

TypeText(s) ==
    /\ Idle /\ input_type = "Text" /\ s # user_input
    /\ user_input' = s
    /\ UNCHANGED <<input_type, context, uploaded_image, uploaded_csv>>
    /\ StartRun(FALSE)

UploadImage(f) ==
    /\ Idle /\ input_type = "Image" /\ f # uploaded_image
    /\ uploaded_image' = f
    /\ UNCHANGED <<input_type, context, user_input, uploaded_csv>>
    /\ StartRun(FALSE)

UploadCsv(f) ==
    /\ Idle /\ input_type = "CSV Data" /\ f # uploaded_csv
    /\ uploaded_csv' = f
    /\ UNCHANGED <<input_type, context, user_input, uploaded_image>>
    /\ StartRun(FALSE)

\* the button of the selected mode was rendered by the last run
ButtonVisible ==
    \/ input_type = "Text" /\ pc = "done"
    \/ input_type = "Image" /\ pc = "done" /\ uploaded_image.present
    \/ input_type = "CSV Data" /\ pc = "done" /\ uploaded_csv.present
    \/ input_type = "Random Concept" /\ pc \in {"done", "crashed"}

PressButton ==
    /\ Idle /\ ButtonVisible
    /\ UNCHANGED widgets
    /\ StartRun(TRUE)

\* after st.stop() in load_models the page shows no widget: the user can
\* only run the script again
Rerun ==
    /\ pc = "stopped" /\ loads < MaxLoads
    /\ UNCHANGED widgets
    /\ StartRun(FALSE)

Next ==
    \/ LoadModels
    \/ HandleText
    \/ HandleImage
    \/ HandleCsv
    \/ HandleRandom
    \/ \E t \in InputTypes : SelectInputType(t)
    \/ \E c \in Contexts : SelectContext(c)
    \/ \E s \in Texts : TypeText(s)
    \/ \E p \in PeakProbs : UploadImage(ImageFile(p))
    \/ UploadImage(CorruptImage)
    \/ \E f \in CsvFiles \cup {CorruptCsv} : UploadCsv(f)
    \/ PressButton
    \/ Rerun

Spec == Init /\ [][Next]_vars

\* ------------------------------------------------------- ranking alone
\* the script of an Image mode run whose models loaded, about to handle a
\* button press, for every image the bounds allow
InitRank ==
    /\ input_type = "Image"
    /\ context = DefaultContext
    /\ user_input = <<>>
    /\ \E p \in AllProbs : uploaded_image = ImageFile(p)
    /\ uploaded_csv = NoCsv
    /\ button = TRUE
    /\ pc = "ui"
    /\ handles = [text_generator |-> 1, clip_model |-> 1, clip_processor |-> 1]
    /\ loads = 1
    /\ first = handles
    /\ rendered = {}
    /\ calls = <<>>
    /\ clipCalls = 0
    /\ describeCalls = 0
    /\ invoked = <<>>
    /\ raised = {}
    /\ uncaught = ""
    /\ output = None
    /\ ui_concepts = None
    /\ data = NoData
    /\ concept = NoConcept

\* concepts = analyze_image(image), the CLIP call succeeding
RankStep ==
    /\ pc = "ui" /\ input_type = "Image" /\ button
    /\ LET a == analyze_image(uploaded_image, [raises |-> FALSE, err |-> ""]) IN
       /\ ui_concepts' = a.ret
       /\ clipCalls' = a.clipCalls
       /\ rendered' = rendered \cup a.rendered
       /\ raised' = a.raised
    /\ invoked' = <<"analyze_image">>
    /\ pc' = "done"
    /\ UNCHANGED <<widgets, button, handles, loads, first, calls, describeCalls,
                   uncaught, output, data, concept>>

SpecRank == InitRank /\ [][RankStep]_vars

\* ------------------------------------------------------- properties
Range(f) == {f[i] : i \in DOMAIN f}

\* t occurs in s at position i
OccursAt(s, i, t) ==
    i >= 1 /\ i + Len(t) - 1 <= Len(s) /\ SubSeq(s, i, i + Len(t) - 1) = t

\* t occurs in s as a contiguous run of tokens
Contains(s, t) ==
    \E i \in 1..(Len(s) - Len(t) + 1) : OccursAt(s, i, t)

\* s ends with t
EndsWith(s, t) ==
    Len(t) <= Len(s) /\ SubSeq(s, Len(s) - Len(t) + 1, Len(s)) = t

\* empty, or whitespace only
Blank(s) == \A i \in 1..Len(s) : IsSpace(s[i])

\* s with its first letter upper-cased and the rest left alone
UpperFirst(s) == [i \in 1..Len(s) |-> IF i = 1 THEN ToUpper(s[i]) ELSE s[i]]

ErrorsOf(src) == {m \in rendered : m.kind = "error" /\ m.src = src}

RunEnded == pc \in {"done", "crashed"}

LoadFailed == ErrorsOf("load_models") # {}

AllBound(h) == h.text_generator > 0 /\ h.clip_model > 0 /\ h.clip_processor > 0

\* C1: an upload the parser rejects ends its request with an error message
\* rendered by a component's own handler and with no exception having left
\* the script.
C1_ParseFailureCaught ==
    (RunEnded /\ (\/ input_type = "Image" /\ uploaded_image.present
                                          /\ ~uploaded_image.ok
                  \/ input_type = "CSV Data" /\ uploaded_csv.present
                                             /\ ~uploaded_csv.ok))
        => (uncaught = "" /\ \E m \in rendered : m.kind = "error")

\* C2: every invocation of generate_random_concept returns one of the five
\* fixed entries and raises nothing.
C2_PickTotal ==
    (RunEnded /\ invoked = <<"generate_random_concept">>)
        => (uncaught = "" /\ concept \in Range(RandomConcepts))

\* the labels that come before label i in the stable descending order
Ahead(p, i) ==
    {j \in 1..NumConcepts : p[j] > p[i] \/ (p[j] = p[i] /\ j < i)}

\* C3: when the embedding model succeeds, analyze_image returns exactly 3
\* (concept, probability) pairs of the vocabulary, in non-increasing
\* probability order, equal probabilities in vocabulary order: the first 3 of
\* the stable descending ordering of all 10.
C3_RankTop3 ==
    (pc = "done" /\ invoked # <<>> /\ Head(invoked) = "analyze_image"
        /\ ~\E f \in raised : f[1] = "analyze_image")
        => LET r == ui_concepts.val
               p == uploaded_image.probs
           IN /\ ~ui_concepts.none
              /\ Len(r) = 3
              /\ \A k \in 1..2 : r[k][2] >= r[k + 1][2]
              /\ \A k \in 1..3 :
                    \E i \in 1..NumConcepts :
                       /\ r[k] = <<concepts[i], p[i]>>
                       /\ Cardinality(Ahead(p, i)) = k - 1

\* C3 witness: a ranking with a tie inside the top 3 and a tie across the cut
C3_Witness ==
    /\ pc = "done" /\ ~ui_concepts.none /\ Len(ui_concepts.val) = 3
    /\ ui_concepts.val[1][2] = ui_concepts.val[2][2]
    /\ ui_concepts.val[2][2] > ui_concepts.val[3][2]
    /\ Cardinality({j \in 1..NumConcepts :
                       uploaded_image.probs[j] = ui_concepts.val[3][2]}) > 1

GenerateRaised == \E f \in raised : f[1] = "generate_innovation"

\* C4: generate_innovation returns a non-empty string without leading or
\* trailing whitespace when the text model succeeds, returns None after
\* rendering an error when it raises, and lets no exception escape.
C4_GenerateResult ==
    (RunEnded /\ "generate_innovation" \in Range(invoked))
        => /\ uncaught = ""
           /\ IF GenerateRaised
              THEN output = None /\ ErrorsOf("generate_innovation") # {}
              ELSE /\ ~output.none
                   /\ output.val # <<>>
                   /\ ~IsSpace(Head(output.val))
                   /\ ~IsSpace(output.val[Len(output.val)])

\* C4 witness: the model's text ended in whitespace that the result lacks
C4_Witness ==
    /\ pc = "done" /\ Len(calls) = 1 /\ ~output.none
    /\ output.val = calls[1].prompt \o <<" ", "w">>

\* C5: a run whose model load failed renders a load error, stops before the
\* dispatch code and invokes no component; requests are served only with all
\* three handles bound, and the handles are never bound in part.
C5_FatalStartup ==
    /\ LoadFailed => (pc = "stopped" /\ invoked = <<>> /\ handles = Unbound)
    /\ pc = "stopped" => LoadFailed
    /\ (pc = "ui" \/ invoked # <<>>) => AllBound(handles)
    /\ handles = Unbound \/ AllBound(handles)

\* C5 witness: a load failed in a run after one that had served a request
C5_Witness == pc = "stopped" /\ LoadFailed /\ loads > 1

\* C6: load_models is executed exactly once in a process lifetime and the
\* handles in use are those bound by that first load.
C6_LoadedOnce ==
    /\ loads <= 1
    /\ pc \in {"ui", "done", "crashed"} => handles = first

\* C7: in Text mode a button press with blank text invokes no text model and
\* renders a warning and no error; the text model is invoked from Text mode
\* only with text that is non-empty after stripping.
C7_BlankTextNotGenerated ==
    (input_type = "Text" /\ button /\ RunEnded)
        => /\ Blank(user_input) =>
                 /\ calls = <<>> /\ invoked = <<>>
                 /\ \E m \in rendered : m.kind = "warning"
                 /\ ~\E m \in rendered : m.kind \in {"error", "exception"}
           /\ calls # <<>> => ~Blank(user_input)

\* C7 witness: the button pressed over whitespace-only text
C7_Witness ==
    /\ input_type = "Text" /\ button /\ pc = "done"
    /\ user_input # <<>> /\ Blank(user_input)
    /\ Msg("warning", "validation", "") \in rendered

\* C8: every component failure of a request is rendered as an error carrying
\* the underlying error text, and each model capability is invoked at most
\* once per request.
C8_FailureSurfaced ==
    RunEnded
        => /\ \A f \in raised : \E m \in ErrorsOf(f[1]) : m.text = f[2]
           /\ Len(calls) <= 1 /\ clipCalls <= 1 /\ describeCalls <= 1
           /\ raised # {} => \E m \in rendered : m.kind = "error"

\* C8 witness: the image ranker raised during a request
C8_Witness ==
    /\ pc = "done" /\ clipCalls = 1
    /\ \E f \in raised : f[1] = "analyze_image"

\* the problem the running mode hands to generate_innovation
Problem ==
    IF input_type = "Image" THEN <<ui_concepts.val[1][1], " ", "innovation">>
    ELSE user_input

\* C9: every prompt passed to the text model holds the selected context with
\* its first letter upper-cased, then the problem verbatim, and ends with the
\* two instruction sentences; one sequence of max length 200 is requested.
C9_PromptShape ==
    \A k \in 1..Len(calls) :
        LET c == calls[k] IN
        /\ context \in Contexts
        /\ \E i, j \in 1..Len(c.prompt) :
              /\ OccursAt(c.prompt, i, UpperFirst(context))
              /\ i + Len(context) <= j
              /\ OccursAt(c.prompt, j, Problem)
              /\ j + Len(Problem) <= Len(c.prompt) - 2
        /\ EndsWith(c.prompt, <<Sentence1, "\n", Sentence2>>)
        /\ c.num_return_sequences = 1
        /\ c.max_length = 200

Sustainability ==
    <<"S", "u", "s", "t", "a", "i", "n", "a", "b", "i", "l", "i", "t", "y">>

\* C9 witness: a Text mode prompt built for the Sustainability context
C9_Witness ==
    /\ input_type = "Text" /\ Len(calls) = 1 /\ context = Sustainability
    /\ user_input = <<"p", " ">>

\* C10: an Image mode button press invokes analyze_image first, and
\* generate_innovation if and only if it returned a result, with the problem
\* "<label> innovation" for the highest-probability returned label; when the
\* ranking fails, no text model call is made and no idea is rendered.
C10_ImageFlow ==
    (input_type = "Image" /\ button /\ pc = "done")
        => /\ invoked # <<>> /\ Head(invoked) = "analyze_image"
           /\ "generate_innovation" \in Range(invoked) <=> ~ui_concepts.none
           /\ ~ui_concepts.none =>
                 /\ invoked = <<"analyze_image", "generate_innovation">>
                 /\ Len(calls) = 1
                 /\ \E k \in 1..Len(ui_concepts.val) :
                       /\ \A m \in 1..Len(ui_concepts.val) :
                             ui_concepts.val[k][2] >= ui_concepts.val[m][2]
                       /\ Contains(calls[1].prompt,
                                   <<"Problem:", " ", ui_concepts.val[k][1], " ",
                                     "innovation", ".">>)
           /\ ui_concepts.none =>
                 /\ calls = <<>> /\ output = None
                 /\ ~\E m \in rendered : m.src = "idea"

\* C10 witness: a ranking followed by a generated idea
C10_Witness ==
    /\ input_type = "Image" /\ button /\ pc = "done"
    /\ ~ui_concepts.none /\ ~output.none
    /\ Msg("write", "idea", "") \in rendered

====
